---- MODULE Spec2Model ----
(***************************************************************************)
(* A model of packages/react-intl/src/utils.ts: the memoized formatter     *)
(* constructors built by createFormatters over the stores of an IntlCache, *)
(* and the helpers filterProps, invariantIntlContext and getNamedFormat.   *)
(***************************************************************************)
EXTENDS Integers, Sequences, FiniteSets, TLC

VARIABLES
    stores,    \* the heap of store objects: address -> (key -> instance id)
    caches,    \* the IntlCache containers made so far: kind -> store address
    sets,      \* the Formatters sets made so far: the container each was made
               \* over, whether it made that container itself (own), and
               \* kind -> the store address its constructor captured
    heap,      \* the formatter instances constructed so far
    calls,     \* the calls made to memoized constructors, in order
    input,     \* the arguments of the helper under check
    result,    \* what the helper call did: pending, returned or threw
    reported   \* the errors handed to the onError callback or written to
               \* console.error, in order

vars == <<stores, caches, sets, heap, calls, input, result, reported>>

(* Bounds of the model. *)
MaxCalls == 2
MaxCaches == 2
MaxSets == 2

(***************************************************************************)
(* JavaScript values. Every value has the same shape: its type tag t, its  *)
(* text s (the string, the number's literal, the function's name), its own *)
(* enumerable properties props in insertion order (<<key, value>> pairs),  *)
(* and env, the Formatters set a closure was created in (0: none).         *)
(***************************************************************************)
JS(t, s, props, env) == [t |-> t, s |-> s, props |-> props, env |-> env]
Undefined == JS("undefined", "", <<>>, 0)
Null == JS("null", "", <<>>, 0)
Str(x) == JS("string", x, <<>>, 0)
Num(x) == JS("number", x, <<>>, 0)
Bool(x) == JS("boolean", x, <<>>, 0)
Fn(name, env) == JS("function", name, <<>>, env)
Obj(props) == JS("object", "", props, 0)

(* ToBoolean, as applied by &&, ||, if (...) and invariant(condition). *)
ToBoolean(v) ==
    CASE v.t = "undefined" -> FALSE
      [] v.t = "null" -> FALSE
      [] v.t = "string" -> v.s # ""
      [] v.t = "number" -> v.s \notin {"0", "-0", "NaN"}
      [] v.t = "boolean" -> v.s = "true"
      [] OTHER -> TRUE

(* The properties every plain object inherits from Object.prototype (two   *)
(* of them stand for the rest).                                            *)
ObjectPrototype == {"constructor", "toString"}

OwnKeys(o) == {o.props[i][1] : i \in DOMAIN o.props}
HasOwn(o, key) == key \in OwnKeys(o)
OwnValue(o, key) == o.props[CHOOSE i \in DOMAIN o.props : o.props[i][1] = key][2]

(* key in o: own or inherited. *)
HasProperty(o, key) ==
    /\ o.t = "object"
    /\ (HasOwn(o, key) \/ key \in ObjectPrototype)

(* o[key]: the own property, else the inherited one, else undefined. *)
Get(o, key) ==
    IF o.t = "object" /\ HasOwn(o, key) THEN OwnValue(o, key)
    ELSE IF o.t = "object" /\ key \in ObjectPrototype
         THEN Fn("Object.prototype." \o key, 0)
    ELSE Undefined

(* o[key] = value: overwrites in place, or appends a new own property. *)
Put(o, key, value) ==
    IF HasOwn(o, key)
    THEN Obj([i \in DOMAIN o.props |->
                 IF o.props[i][1] = key THEN <<key, value>> ELSE o.props[i]])
    ELSE Obj(Append(o.props, <<key, value>>))

RECURSIVE PutAll(_, _)
PutAll(o, props) ==
    IF props = <<>> THEN o
    ELSE PutAll(Put(o, props[1][1], props[1][2]), Tail(props))

(* {...a, ...b} on plain objects (a spread of undefined or null adds nothing). *)
Spread(a, b) == PutAll(PutAll(Obj(<<>>), a.props), b.props)

(* Deep value equality: same type and text; objects by their keys and      *)
(* values, whatever the insertion order; functions by identity.            *)
RECURSIVE ValueEqual(_, _)
ValueEqual(a, b) ==
    IF a.t = "object" /\ b.t = "object"
    THEN /\ OwnKeys(a) = OwnKeys(b)
         /\ \A k \in OwnKeys(a) : ValueEqual(OwnValue(a, k), OwnValue(b, k))
    ELSE a = b

ArgsEqual(A, B) ==
    /\ Len(A) = Len(B)
    /\ \A i \in DOMAIN A : ValueEqual(A[i], B[i])

(***************************************************************************)
(* JSON.stringify, the default serializer of the memoizer.                 *)
(***************************************************************************)
Serializable(v) == v.t \notin {"undefined", "function"}

RECURSIVE Stringify(_)
RECURSIVE Members(_, _)
(* The members of an object: a property whose value is undefined or a      *)
(* function is left out.                                                   *)
Members(props, first) ==
    IF props = <<>> THEN ""
    ELSE IF ~Serializable(props[1][2]) THEN Members(Tail(props), first)
    ELSE (IF first THEN "" ELSE ",")
         \o "\"" \o props[1][1] \o "\":" \o Stringify(props[1][2])
         \o Members(Tail(props), FALSE)

Stringify(v) ==
    CASE v.t = "string" -> "\"" \o v.s \o "\""
      [] v.t = "number" ->
            IF v.s \in {"NaN", "Infinity", "-Infinity"} THEN "null"
            ELSE IF v.s = "-0" THEN "0" ELSE v.s
      [] v.t = "boolean" -> v.s
      [] v.t = "null" -> "null"
      [] v.t = "object" -> "{" \o Members(v.props, TRUE) \o "}"
      [] OTHER -> "null"

(* The elements of an array: undefined and functions become null. *)
RECURSIVE Elements(_, _)
Elements(args, first) ==
    IF args = <<>> THEN ""
    ELSE (IF first THEN "" ELSE ",") \o Stringify(args[1])
         \o Elements(Tail(args), FALSE)

(* A faulty variant: the key is the first argument alone (the monadic      *)
(* strategy).                                                              *)
serializerFirstArgument(args) ==
    "{\"0\":" \o Stringify(IF args = <<>> THEN Undefined ELSE args[1]) \o "}"

(* serializerDefault: JSON.stringify(arguments), the arguments being the   *)
(* one array of the call's arguments.                                      *)
serializerDefault(args) == "{\"0\":[" \o Elements(args, TRUE) \o "]}"

(***************************************************************************)
(* The formatter kinds, the stores of a cache container and the memoizer.  *)
(***************************************************************************)
KindOrder ==
    <<"dateTime", "number", "message", "relativeTime", "pluralRules", "list",
      "displayNames">>
Kinds == {KindOrder[i] : i \in DOMAIN KindOrder}
KindIndex(kind) == CHOOSE i \in DOMAIN KindOrder : KindOrder[i] = kind

GetterOf(kind) ==
    CASE kind = "dateTime" -> "getDateTimeFormat"
      [] kind = "number" -> "getNumberFormat"
      [] kind = "message" -> "getMessageFormat"
      [] kind = "relativeTime" -> "getRelativeTimeFormat"
      [] kind = "pluralRules" -> "getPluralRules"
      [] kind = "list" -> "getListFormat"
      [] kind = "displayNames" -> "getDisplayNames"

(* A store is a plain object used as a map from key to instance; an        *)
(* instance is named by its index in heap, and 0 stands for undefined.     *)
EmptyStore == [k \in {} |-> 0]

(* A faulty variant: the seven stores are module-level objects, the same   *)
(* for every container.                                                    *)
createIntlCacheShared(n) == [k \in Kinds |-> KindIndex(k)]

(* A faulty variant: pluralRules is given the object made for number.      *)
createIntlCacheAliased(n) ==
    [k \in Kinds |->
        n + KindIndex(IF k = "pluralRules" THEN "number" ELSE k)]

(* createIntlCache(): seven new empty objects, one per kind; n is the      *)
(* number of store objects allocated before the call.                      *)
createIntlCache(n) == [k \in Kinds |-> n + KindIndex(k)]

(* createFastMemoizeCache(store): get(key) is store[key], and set(key,     *)
(* value) is store[key] = value. A key is a JSON text, never the name of   *)
(* an inherited property.                                                  *)
cacheGetMiss(store, key) == 0   \* a faulty variant: get never finds a key
cacheGet(store, key) == IF key \in DOMAIN store THEN store[key] ELSE 0
cacheSetOnly(store, key, value) ==   \* a faulty variant: the store is reset
    [k \in {key} |-> value]
cacheSet(store, key, value) ==
    [k \in DOMAIN store \cup {key} |-> IF k = key THEN value ELSE store[k]]

(* The store each memoized constructor of createFormatters(cache) closes   *)
(* over: cache.dateTime for getDateTimeFormat, and so on.                  *)
createFormattersMiswired(cache) ==   \* a faulty variant: a copied store name
    [k \in Kinds |-> IF k = "pluralRules" THEN cache["number"] ELSE cache[k]]
createFormatters(cache) == [k \in Kinds |-> cache[k]]

(* The formatters object getMessageFormat injects: the memoized            *)
(* getNumberFormat, getDateTimeFormat and getPluralRules of the same set.  *)
InjectedFormatters(set) ==
    Obj(<< <<"getNumberFormat", Fn("getNumberFormat", set)>>,
           <<"getDateTimeFormat", Fn("getDateTimeFormat", set)>>,
           <<"getPluralRules", Fn("getPluralRules", set)>> >>)

Arg(args, i) == IF i \in DOMAIN args THEN args[i] ELSE Undefined

(* The options bag handed to IntlMessageFormat:                            *)
(* {formatters: {...}, ...(opts || {})}.                                   *)
MessageOptionsNotInjected(set, opts) ==   \* a faulty variant: opts alone
    IF ToBoolean(opts) THEN opts ELSE Obj(<<>>)
MessageOptions(set, opts) ==
    Spread(Obj(<< <<"formatters", InjectedFormatters(set)>> >>),
           IF ToBoolean(opts) THEN opts ELSE Obj(<<>>))

(* The platform: a constructor rejects a malformed language tag, and the   *)
(* message formatter a malformed message pattern.                          *)
BadTag == "en-!"
BadPattern == "{"
LocalesOf(kind, args) == IF kind = "message" THEN Arg(args, 2) ELSE Arg(args, 1)
CtorError(kind, args) ==
    IF kind = "message" /\ Arg(args, 1) = Str(BadPattern) THEN "SyntaxError"
    ELSE IF LocalesOf(kind, args) = Str(BadTag) THEN "RangeError"
    ELSE ""

(* The formatters an IntlMessageFormat keeps: those of its options, or its *)
(* own defaults when the options name none.                                *)
DefaultFormatters ==
    Obj(<< <<"getNumberFormat", Fn("IntlMessageFormat.getNumberFormat", 0)>>,
           <<"getDateTimeFormat", Fn("IntlMessageFormat.getDateTimeFormat", 0)>>,
           <<"getPluralRules", Fn("IntlMessageFormat.getPluralRules", 0)>> >>)
IntlMessageFormat(options) ==
    IF ToBoolean(Get(options, "formatters")) THEN Get(options, "formatters")
    ELSE DefaultFormatters

(* The function each memoizer wraps: (...args) => new X(...args), and for  *)
(* the message kind new IntlMessageFormat(message, locales,                *)
(* overrideFormats, options). The outcome is the new object or the error   *)
(* the constructor throws.                                                 *)
Construct(kind, args, set) ==
    [err |-> CtorError(kind, args),
     obj |-> [kind |-> kind, args |-> args, set |-> set,
              formatters |->
                  IF kind = "message"
                  THEN IntlMessageFormat(MessageOptions(set, Arg(args, 4)))
                  ELSE Undefined]]

(* The variadic strategy of the memoizer over a store: the key is the      *)
(* serialized argument list; a stored value is returned as it is, else the *)
(* wrapped function is called and its value stored. A throw of the wrapped *)
(* function leaves through the memoizer. id names the object a             *)
(* construction would make.                                                *)
variadicSwallow(store, kind, args, set, id) ==
    \* a faulty variant: a failed construction is caught and undefined returned
    LET cacheKey == serializerDefault(args)
        computedValue == cacheGet(store, cacheKey)
        made == Construct(kind, args, set)
    IN  IF computedValue # 0
        THEN [ok |-> TRUE, inst |-> computedValue, err |-> "", built |-> FALSE,
              store |-> store]
        ELSE IF made.err # ""
        THEN [ok |-> TRUE, inst |-> 0, err |-> "", built |-> TRUE,
              store |-> store]
        ELSE [ok |-> TRUE, inst |-> id, err |-> "", built |-> TRUE,
              store |-> cacheSet(store, cacheKey, id)]

variadicPerSet(store, kind, args, set, id) ==
    \* a faulty variant: the entries of one set are kept from the other sets
    LET cacheKey == serializerDefault(args) \o "#" \o ToString(set)
        computedValue == cacheGet(store, cacheKey)
        made == Construct(kind, args, set)
    IN  IF computedValue # 0
        THEN [ok |-> TRUE, inst |-> computedValue, err |-> "",
              built |-> FALSE, store |-> store]
        ELSE IF made.err # ""
        THEN [ok |-> FALSE, inst |-> 0, err |-> made.err, built |-> TRUE,
              store |-> store]
        ELSE [ok |-> TRUE, inst |-> id, err |-> "", built |-> TRUE,
              store |-> cacheSet(store, cacheKey, id)]
variadicStoreFirst(store, kind, args, set, id) ==
    \* a faulty variant: the key is entered before the construction
    LET cacheKey == serializerDefault(args)
        computedValue == cacheGet(store, cacheKey)
        made == Construct(kind, args, set)
    IN  IF computedValue # 0
        THEN [ok |-> TRUE, inst |-> computedValue, err |-> "",
              built |-> FALSE, store |-> store]
        ELSE IF made.err # ""
        THEN [ok |-> FALSE, inst |-> 0, err |-> made.err, built |-> TRUE,
              store |-> cacheSet(store, cacheKey, 0)]
        ELSE [ok |-> TRUE, inst |-> id, err |-> "", built |-> TRUE,
              store |-> cacheSet(store, cacheKey, id)]
variadic(store, kind, args, set, id) ==
    LET cacheKey == serializerDefault(args)
        computedValue == cacheGet(store, cacheKey)
        made == Construct(kind, args, set)
    IN  IF computedValue # 0
        THEN [ok |-> TRUE, inst |-> computedValue, err |-> "", built |-> FALSE,
              store |-> store]
        ELSE IF made.err # ""
        THEN [ok |-> FALSE, inst |-> 0, err |-> made.err, built |-> TRUE,
              store |-> store]
        ELSE [ok |-> TRUE, inst |-> id, err |-> "", built |-> TRUE,
              store |-> cacheSet(store, cacheKey, id)]

(***************************************************************************)
(* The arguments the calls are made with.                                  *)
(***************************************************************************)
OptionBags ==
    { Obj(<<>>),
      Obj(<< <<"style", Undefined>> >>),
      Obj(<< <<"style", Str("long")>>, <<"type", Str("unit")>> >>),
      Obj(<< <<"type", Str("unit")>>, <<"style", Str("long")>> >>) }

IntlArgs ==
    {<<Str("en")>>, <<Str(BadTag), Obj(<<>>)>>}
        \cup {<<Str("en"), o>> : o \in OptionBags}

CustomFormatters ==
    Obj(<< <<"getNumberFormat", Fn("custom.getNumberFormat", 0)>>,
           <<"getDateTimeFormat", Fn("custom.getDateTimeFormat", 0)>>,
           <<"getPluralRules", Fn("custom.getPluralRules", 0)>> >>)

MessageArgs ==
    { <<Str("{n, number}"), Str("en")>>,
      <<Str(BadPattern), Str("en")>>,
      <<Str("{n, number}"), Str("en"), Undefined,
        Obj(<< <<"ignoreTag", Bool("true")>> >>)>>,
      <<Str("{n, number}"), Str("en"), Undefined,
        Obj(<< <<"formatters", CustomFormatters>> >>)>> }

ArgsOf(kind) == IF kind = "message" THEN MessageArgs ELSE IntlArgs

(***************************************************************************)
(* The state machine of the memoized constructors.                         *)
(***************************************************************************)
NoInput == [fn |-> "none"]
Pending == [state |-> "pending"]

Init ==
    /\ stores = <<>>
    /\ caches = <<>>
    /\ sets = <<>>
    /\ heap = <<>>
    /\ calls = <<>>
    /\ input = NoInput
    /\ result = Pending
    /\ reported = <<>>

helperVars == <<input, result, reported>>

(* cache = createIntlCache() *)
CreateIntlCache ==
    /\ Len(caches) < MaxCaches
    /\ caches' = Append(caches, createIntlCache(Len(stores)))
    /\ stores' = stores \o [i \in 1..Len(KindOrder) |-> EmptyStore]
    /\ UNCHANGED <<sets, heap, calls, helperVars>>

(* createFormatters(cache) over a container the caller holds: one made by  *)
(* createIntlCache(). The container a createFormatters() call made for     *)
(* itself is reachable through its closures only.                          *)
CreateFormatters ==
    /\ Len(sets) < MaxSets
    /\ \E c \in DOMAIN caches :
          /\ \A s \in DOMAIN sets : sets[s].own => sets[s].cache # c
          /\ sets' = Append(sets, [cache |-> c, own |-> FALSE,
                                   stores |-> createFormatters(caches[c])])
    /\ UNCHANGED <<stores, caches, heap, calls, helperVars>>

(* A faulty variant: the default argument is one container made once, the *)
(* same for every createFormatters() call.                                 *)
CreateFormattersDefaultShared ==
    LET first == {s \in DOMAIN sets : sets[s].own}
    IN  /\ Len(sets) < MaxSets
        /\ IF first = {}
           THEN /\ Len(caches) < MaxCaches
                /\ caches' = Append(caches, createIntlCache(Len(stores)))
                /\ stores' = stores \o [i \in 1..Len(KindOrder) |-> EmptyStore]
           ELSE UNCHANGED <<caches, stores>>
        /\ LET c == IF first = {} THEN Len(caches')
                    ELSE sets[CHOOSE s \in first : TRUE].cache
           IN  sets' = Append(sets, [cache |-> c, own |-> TRUE,
                                     stores |-> createFormatters(caches'[c])])
        /\ UNCHANGED <<heap, calls, helperVars>>

(* createFormatters(): the default argument makes a container of its own. *)
CreateFormattersDefault ==
    /\ Len(sets) < MaxSets
    /\ Len(caches) < MaxCaches
    /\ caches' = Append(caches, createIntlCache(Len(stores)))
    /\ stores' = stores \o [i \in 1..Len(KindOrder) |-> EmptyStore]
    /\ sets' = Append(sets, [cache |-> Len(caches'), own |-> TRUE,
                             stores |-> createFormatters(caches'[Len(caches')])])
    /\ UNCHANGED <<heap, calls, helperVars>>

(* One call of the memoized constructor of `kind` of set `set`; via is the *)
(* message formatter the call is made from (0: called directly).           *)
Memoized(set, kind, args, via) ==
    LET addr == sets[set].stores[kind]
        r == variadic(stores[addr], kind, args, set, Len(heap) + 1)
    IN  /\ Len(calls) < MaxCalls
        /\ stores' = [stores EXCEPT ![addr] = r.store]
        /\ heap' = IF r.built /\ r.ok
                   THEN Append(heap, Construct(kind, args, set).obj)
                   ELSE heap
        /\ calls' = Append(calls,
              [set |-> set, cache |-> sets[set].cache, store |-> addr,
               kind |-> kind, args |-> args,
               key |-> serializerDefault(args), ok |-> r.ok, inst |-> r.inst,
               err |-> r.err, built |-> r.built, via |-> via])
        /\ UNCHANGED <<caches, sets, helperVars>>

GetDateTimeFormat ==
    \E s \in DOMAIN sets, a \in ArgsOf("dateTime") : Memoized(s, "dateTime", a, 0)
GetNumberFormat ==
    \E s \in DOMAIN sets, a \in ArgsOf("number") : Memoized(s, "number", a, 0)
GetPluralRules ==
    \E s \in DOMAIN sets, a \in ArgsOf("pluralRules") :
        Memoized(s, "pluralRules", a, 0)
GetMessageFormat ==
    \E s \in DOMAIN sets, a \in ArgsOf("message") : Memoized(s, "message", a, 0)
GetRelativeTimeFormat ==
    \E s \in DOMAIN sets, a \in ArgsOf("relativeTime") :
        Memoized(s, "relativeTime", a, 0)
GetListFormat ==
    \E s \in DOMAIN sets, a \in ArgsOf("list") : Memoized(s, "list", a, 0)
GetDisplayNames ==
    \E s \in DOMAIN sets, a \in ArgsOf("displayNames") :
        Memoized(s, "displayNames", a, 0)

(* A function that is no memoized constructor: it constructs on each call. *)
Unmemoized(kind, args, via) ==
    LET made == Construct(kind, args, 0)
    IN  /\ Len(calls) < MaxCalls
        /\ heap' = IF made.err = "" THEN Append(heap, made.obj) ELSE heap
        /\ calls' = Append(calls,
              [set |-> 0, cache |-> 0, store |-> 0, kind |-> kind,
               args |-> args,
               key |-> serializerDefault(args), ok |-> made.err = "",
               inst |-> IF made.err = "" THEN Len(heap) + 1 ELSE 0,
               err |-> made.err, built |-> TRUE, via |-> via])
        /\ UNCHANGED <<stores, caches, sets, helperVars>>

(* Formatting a message: the message formatter asks the formatters it was  *)
(* given for the number, date/time or plural-rules formatter of an         *)
(* argument of the pattern.                                                *)
NestedKinds == {"number", "dateTime", "pluralRules"}
FormatMessage ==
    \E m \in DOMAIN heap, kind \in NestedKinds, a \in IntlArgs :
        /\ heap[m].kind = "message"
        /\ LET f == Get(heap[m].formatters, GetterOf(kind))
           IN  IF f.env # 0 THEN Memoized(f.env, kind, a, m)
               ELSE Unmemoized(kind, a, m)

Next ==
    \/ CreateIntlCache
    \/ CreateFormatters
    \/ CreateFormattersDefault
    \/ GetDateTimeFormat
    \/ GetNumberFormat
    \/ GetPluralRules
    \/ GetMessageFormat
    \/ GetRelativeTimeFormat
    \/ GetListFormat
    \/ GetDisplayNames
    \/ FormatMessage

Spec == Init /\ [][Next]_vars

(***************************************************************************)
(* The helpers. Each is applied once to arguments drawn by its own initial *)
(* condition; the memoizer's state stays empty meanwhile.                  *)
(***************************************************************************)
memoVars == <<stores, caches, sets, heap, calls>>

NoMemo ==
    /\ stores = <<>>
    /\ caches = <<>>
    /\ sets = <<>>
    /\ heap = <<>>
    /\ calls = <<>>

Returned(value) == [state |-> "returned", value |-> value]
Threw(name, message) == [state |-> "threw", name |-> name, message |-> message]

(* An object of the entries that are not left out. *)
Absent == JS("absent", "", <<>>, 0)
ObjOf(entries) == Obj(SelectSeq(entries, LAMBDA e : e[2] # Absent))

(* filterProps(props, whitelist, defaults = {}): the reduce over whitelist. *)
RECURSIVE filterPropsReduce(_, _, _, _)
filterPropsReduce(filtered, props, whitelist, defaults) ==
    IF whitelist = <<>> THEN filtered
    ELSE LET name == Head(whitelist)
             next == IF HasProperty(props, name)
                     THEN Put(filtered, name, Get(props, name))
                     ELSE IF HasProperty(defaults, name)
                     THEN Put(filtered, name, Get(defaults, name))
                     ELSE filtered
         IN  filterPropsReduce(next, props, Tail(whitelist), defaults)

filterProps(props, whitelist, defaults) ==
    filterPropsReduce(Obj(<<>>), props, whitelist,
                      IF defaults = Undefined THEN Obj(<<>>) ELSE defaults)

MaxWhitelist == 2
WhitelistKeys == {"a", "c", "toString"}
Whitelists ==
    UNION {[1..n -> WhitelistKeys] : n \in 0..MaxWhitelist}
PropsValues == {Absent, Num("1"), Num("0"), Undefined}
PropsRecords ==
    {ObjOf(<< <<"a", va>>, <<"b", vb>> >>) :
        va \in PropsValues, vb \in {Absent, Num("2")}}
DefaultsRecords ==
    {Undefined} \cup
    {ObjOf(<< <<"a", va>>, <<"c", vc>> >>) :
        va \in {Absent, Num("3")}, vc \in {Absent, Num("3"), Undefined}}

InitFilterProps ==
    /\ NoMemo
    /\ input \in [fn : {"filterProps"}, props : PropsRecords,
                  whitelist : Whitelists, defaults : DefaultsRecords]
    /\ result = Pending
    /\ reported = <<>>

FilterProps ==
    /\ input.fn = "filterProps"
    /\ result = Pending
    /\ result' = Returned(filterProps(input.props, input.whitelist,
                                      input.defaults))
    /\ UNCHANGED <<memoVars, input, reported>>

SpecFilterProps == InitFilterProps /\ [][FilterProps]_vars

(* invariant(condition, message): throws an Error with the message when    *)
(* the condition is falsy.                                                 *)
invariant(condition, message) ==
    IF ~ToBoolean(condition) THEN Threw("Error", message)
    ELSE Returned(Undefined)

(* The message, its backquotes written as apostrophes. *)
IntlContextMessage ==
    "[React Intl] Could not find required 'intl' object. "
        \o "<IntlProvider> needs to exist in the component ancestry."

invariantIntlContextNullish(intl) ==
    \* a faulty variant: the condition is intl != null
    invariant(Bool(IF intl \in {Undefined, Null} THEN "false" ELSE "true"),
              IntlContextMessage)
invariantIntlContext(intl) == invariant(intl, IntlContextMessage)

ContextValues ==
    {Undefined, Null, Bool("true"), Bool("false"), Fn("formatMessage", 0)}
        \cup {Num(n) : n \in {"0", "-0", "NaN", "1", "-1", "42", "Infinity",
                               "0.5", "-Infinity"}}
        \cup {Str(x) : x \in {"", "0", "false", " ", "intl", "null",
                               "undefined"}}
        \cup DefaultsRecords
        \cup PropsRecords
        \cup {ObjOf(<< <<"locale", l>>, <<"messages", m>>, <<"onError", e>> >>) :
                l \in {Absent, Str("en"), Str("")},
                m \in {Absent, Obj(<<>>), Undefined},
                e \in {Absent, Fn("defaultErrorHandler", 0), Null}}

InitIntlContext ==
    /\ NoMemo
    /\ input \in [fn : {"invariantIntlContext"}, intl : ContextValues]
    /\ result = Pending
    /\ reported = <<>>

InvariantIntlContext ==
    /\ input.fn = "invariantIntlContext"
    /\ result = Pending
    /\ result' = invariantIntlContext(input.intl)
    /\ UNCHANGED <<memoVars, input, reported>>

SpecIntlContext == InitIntlContext /\ [][InvariantIntlContext]_vars

(* getNamedFormat(formats, type, name, onError): the value it returns and  *)
(* the errors it hands to onError.                                         *)
UnsupportedFormatterError(message) ==
    [name |-> "UnsupportedFormatterError", message |-> message]

getNamedFormatNoReturn(formats, type, name) ==
    \* a faulty variant: the found format is not returned
    [value |-> Undefined,
     errors |-> <<UnsupportedFormatterError(
                     "No " \o type \o " format named: " \o name)>>]

getNamedFormat(formats, type, name) ==
    LET formatType == IF ToBoolean(formats) THEN Get(formats, type) ELSE formats
        format == IF ToBoolean(formatType) THEN Get(formatType, name)
                  ELSE Undefined
    IN  IF ToBoolean(format)
        THEN [value |-> format, errors |-> <<>>]
        ELSE [value |-> Undefined,
              errors |-> <<UnsupportedFormatterError(
                              "No " \o type \o " format named: " \o name)>>]

FormatTypes == {"number", "date", "time"}
FormatNames == {"USD", "short", "toString"}
CurrencyBag == Obj(<< <<"style", Str("currency")>> >>)
NamedFormats ==
    {ObjOf(<< <<"USD", u>>, <<"toString", t>> >>) :
        u \in {Absent, CurrencyBag, Obj(<<>>)}, t \in {Absent, CurrencyBag}}
FormatTables ==
    {Undefined} \cup
    {ObjOf(<< <<"number", n>>, <<"date", d>> >>) :
        n \in {Absent} \cup NamedFormats, d \in {Absent} \cup NamedFormats}

InitNamedFormat ==
    /\ NoMemo
    /\ input \in [fn : {"getNamedFormat"}, formats : FormatTables,
                  type : FormatTypes, name : FormatNames]
    /\ result = Pending
    /\ reported = <<>>

GetNamedFormat ==
    /\ input.fn = "getNamedFormat"
    /\ result = Pending
    /\ LET r == getNamedFormat(input.formats, input.type, input.name)
       IN  /\ result' = Returned(r.value)
           /\ reported' = reported \o r.errors
    /\ UNCHANGED <<memoVars, input>>

SpecNamedFormat == InitNamedFormat /\ [][GetNamedFormat]_vars

(***************************************************************************)
(* Properties of the memoized constructors (specification Spec).           *)
(***************************************************************************)
MemoCalls == {i \in DOMAIN calls : calls[i].store # 0}

(* The constructions that succeeded in a store under a key, among the      *)
(* calls up to the n-th.                                                   *)
Constructions(store, key, n) ==
    {k \in 1..n : /\ calls[k].store = store
                  /\ calls[k].key = key
                  /\ calls[k].built
                  /\ calls[k].ok}

(* The invocations of the underlying constructor in a store with arguments *)
(* value-equal to args, among the calls up to the n-th.                    *)
Invocations(store, args, n) ==
    {k \in 1..n : /\ calls[k].store = store
                  /\ calls[k].built
                  /\ ArgsEqual(calls[k].args, args)}

(* C1, as stated: over one cache container, a second call of a memoized    *)
(* constructor with value-equal arguments returns the identical instance   *)
(* of the first call, and the underlying constructor was invoked exactly   *)
(* once for these arguments.                                               *)
C1_ValueEqualArgumentsShareInstance ==
    \A i, j \in MemoCalls :
        ( /\ i < j
          /\ calls[i].store = calls[j].store
          /\ ArgsEqual(calls[i].args, calls[j].args)
          /\ calls[i].ok /\ calls[j].ok )
        => /\ calls[j].inst = calls[i].inst
           /\ Cardinality(Invocations(calls[j].store, calls[j].args, j)) = 1

(* C1, amended: over one cache container, a second call whose arguments    *)
(* serialize to the same key as those of the first returns the identical   *)
(* instance without invoking the underlying constructor, and exactly one   *)
(* instance was ever constructed under that key.                           *)
C1_SameKeySharesInstance ==
    \A i, j \in MemoCalls :
        ( /\ i < j
          /\ calls[i].store = calls[j].store
          /\ calls[i].key = calls[j].key
          /\ calls[i].ok /\ calls[j].ok )
        => /\ calls[j].inst = calls[i].inst
           /\ ~calls[j].built
           /\ Cardinality(Constructions(calls[j].store, calls[j].key, j)) = 1

(* Two calls of one constructor with the same arguments, the second a hit. *)
C1_Witness ==
    \E i, j \in MemoCalls :
        /\ i < j
        /\ calls[i].set = calls[j].set
        /\ calls[i].kind = calls[j].kind
        /\ calls[i].args = calls[j].args
        /\ Len(calls[i].args) = 2
        /\ calls[i].built /\ calls[i].ok
        /\ calls[j].ok /\ ~calls[j].built
        /\ calls[j].inst = calls[i].inst

(* C2, as stated: over one cache container, two calls of a memoized        *)
(* constructor with distinct argument tuples give two different instances, *)
(* each constructed by its own invocation and stored under its own key.    *)
C2_DistinctArgumentsDistinctInstances ==
    \A i, j \in MemoCalls :
        ( /\ i < j
          /\ calls[i].store = calls[j].store
          /\ ~ArgsEqual(calls[i].args, calls[j].args)
          /\ calls[i].ok /\ calls[j].ok )
        => /\ calls[j].inst # calls[i].inst
           /\ calls[i].key # calls[j].key
           /\ cacheGet(stores[calls[i].store], calls[i].key) = calls[i].inst
           /\ cacheGet(stores[calls[j].store], calls[j].key) = calls[j].inst
           /\ Cardinality(Invocations(calls[i].store, calls[i].args, j)) = 1
           /\ Cardinality(Invocations(calls[j].store, calls[j].args, j)) = 1

(* C2, amended: over one cache container, two calls of a memoized          *)
(* constructor whose argument tuples serialize to different keys, as       *)
(* tuples of different lengths always do, give two different instances,    *)
(* each constructed once and stored under its own key.                     *)
C2_DistinctKeysDistinctInstances ==
    \A i, j \in MemoCalls :
        ( /\ i < j
          /\ calls[i].store = calls[j].store
          /\ \/ calls[i].key # calls[j].key
             \/ Len(calls[i].args) # Len(calls[j].args)
          /\ calls[i].ok /\ calls[j].ok )
        => /\ calls[j].inst # calls[i].inst
           /\ cacheGet(stores[calls[i].store], calls[i].key) = calls[i].inst
           /\ cacheGet(stores[calls[j].store], calls[j].key) = calls[j].inst
           /\ Cardinality(Constructions(calls[i].store, calls[i].key, j)) = 1
           /\ Cardinality(Constructions(calls[j].store, calls[j].key, j)) = 1

(* Two calls of one constructor that differ in the number of arguments,    *)
(* both constructed and both stored.                                       *)
C2_Witness ==
    \E i, j \in MemoCalls :
        /\ i < j
        /\ calls[i].store = calls[j].store
        /\ Len(calls[i].args) # Len(calls[j].args)
        /\ calls[i].ok /\ calls[j].ok
        /\ calls[i].built /\ calls[j].built
        /\ DOMAIN stores[calls[i].store] = {calls[i].key, calls[j].key}

(* No instance is returned over two containers, and a call is a hit only   *)
(* after a successful call of the same kind and key over its own           *)
(* container.                                                              *)
C3_State ==
    /\ \A i, j \in MemoCalls :
          (calls[i].cache # calls[j].cache /\ calls[i].ok /\ calls[j].ok)
          => calls[i].inst # calls[j].inst
    /\ \A j \in MemoCalls :
          ~calls[j].built
          => \E i \in MemoCalls :
                /\ i < j
                /\ calls[i].cache = calls[j].cache
                /\ calls[i].kind = calls[j].kind
                /\ calls[i].key = calls[j].key
                /\ calls[i].ok
(* A call changes no store of another container. *)
C3_Frame ==
    calls' # calls
    => \A c \in DOMAIN caches :
          c # calls'[Len(calls')].cache
          => \A k \in Kinds : stores'[caches[c][k]] = stores[caches[c][k]]
(* C3: two cache containers share no entry. A call over one container      *)
(* never returns an instance returned over another; it constructs afresh   *)
(* unless its own container holds the key, whatever the other containers   *)
(* hold; and it changes no store of any other container.                   *)
C3_ContainersShareNothing == []C3_State /\ [][C3_Frame]_vars

(* The same constructor called with the same arguments over two            *)
(* containers: two constructions.                                          *)
C3_Witness ==
    \E i, j \in MemoCalls :
        /\ i < j
        /\ calls[i].cache # calls[j].cache
        /\ calls[i].kind = calls[j].kind
        /\ calls[i].args = calls[j].args
        /\ calls[i].ok /\ calls[j].ok
        /\ calls[i].built /\ calls[j].built
        /\ calls[i].inst # calls[j].inst

(* C4: when the underlying constructor is invoked and fails, the memoized  *)
(* constructor throws that very error: it returns nothing and replaces     *)
(* nothing.                                                                *)
C4_FailurePropagates ==
    \A i \in MemoCalls :
        (calls[i].built /\ CtorError(calls[i].kind, calls[i].args) # "")
        => /\ ~calls[i].ok
           /\ calls[i].err = CtorError(calls[i].kind, calls[i].args)
           /\ calls[i].inst = 0

(* A failed construction of a platform formatter and one of a message      *)
(* formatter.                                                              *)
C4_Witness ==
    \E i, j \in MemoCalls :
        /\ calls[i].err = "RangeError"
        /\ calls[j].err = "SyntaxError"

(* The constructors of two kinds never return the same instance. *)
C5_State ==
    \A i, j \in MemoCalls :
        (calls[i].kind # calls[j].kind /\ calls[i].ok /\ calls[j].ok)
        => calls[i].inst # calls[j].inst
(* A call of the constructor of one kind changes no store of another kind  *)
(* of its container.                                                       *)
C5_Frame ==
    calls' # calls /\ calls'[Len(calls')].store # 0
    => LET c == calls'[Len(calls')]
       IN  \A k \in Kinds \ {c.kind} :
              stores'[caches[c.cache][k]] = stores[caches[c.cache][k]]
(* C5: a call of the memoized constructor of one kind leaves the six other *)
(* stores of the container as they were, so the same arguments given to    *)
(* the constructors of two kinds are cached separately and give two        *)
(* different instances.                                                    *)
C5_OnlyOwnStoreWritten == []C5_State /\ [][C5_Frame]_vars

(* The same arguments given to the constructors of two kinds of one set:   *)
(* two constructions, one entry in each of the two stores.                 *)
C5_Witness ==
    \E i, j \in MemoCalls :
        /\ calls[i].set = calls[j].set
        /\ calls[i].kind # calls[j].kind
        /\ calls[i].args = calls[j].args
        /\ calls[i].built /\ calls[j].built
        /\ calls[i].ok /\ calls[j].ok
        /\ DOMAIN stores[calls[i].store] = {calls[i].key}
        /\ DOMAIN stores[calls[j].store] = {calls[j].key}

(* The message formatters constructed through the memoized constructors.   *)
MessageFormats == {m \in DOMAIN heap : heap[m].kind = "message" /\ heap[m].set # 0}

(* The message formatter m holds the memoized constructors of the set that *)
(* built it, and each call it made went to that set's container.           *)
UsesOwnFormatters(m) ==
    /\ \A k \in NestedKinds :
          Get(heap[m].formatters, GetterOf(k)) = Fn(GetterOf(k), heap[m].set)
    /\ \A i \in DOMAIN calls :
          calls[i].via = m
          => /\ calls[i].cache = sets[heap[m].set].cache
             /\ calls[i].store = caches[calls[i].cache][calls[i].kind]

(* C6, as stated: every message formatter built by getMessageFormat,       *)
(* whatever its options bag, holds the memoized number, date/time and      *)
(* plural-rules constructors of the same createFormatters call, and its    *)
(* nested formatting goes to the stores of the same container.             *)
C6_AlwaysOwnFormatters == \A m \in MessageFormats : UsesOwnFormatters(m)

(* C6, amended: the same, for every options bag that has no formatters     *)
(* field of its own.                                                       *)
C6_OwnFormattersUnlessOverridden ==
    \A m \in MessageFormats :
        ~HasOwn(Arg(heap[m].args, 4), "formatters") => UsesOwnFormatters(m)

(* A message formatter built with an options bag of its own whose nested   *)
(* formatting filled a store of its container.                             *)
C6_Witness ==
    \E m \in MessageFormats, i \in MemoCalls :
        /\ Arg(heap[m].args, 4).t = "object"
        /\ ~HasOwn(Arg(heap[m].args, 4), "formatters")
        /\ calls[i].via = m
        /\ calls[i].built /\ calls[i].ok
        /\ calls[i].key \in DOMAIN stores[caches[sets[heap[m].set].cache][calls[i].kind]]

(***************************************************************************)
(* Properties of getNamedFormat (specification SpecNamedFormat).           *)
(***************************************************************************)
KindRegistered ==
    /\ input.formats.t = "object"
    /\ HasOwn(input.formats, input.type)
NameRegistered ==
    /\ KindRegistered
    /\ HasOwn(OwnValue(input.formats, input.type), input.name)
RegisteredFormat == OwnValue(OwnValue(input.formats, input.type), input.name)

(* C7: when the kind is absent from the format table, or the name absent   *)
(* under that kind, getNamedFormat returns undefined and calls onError     *)
(* exactly once, with an unsupported-formatter error that names the kind   *)
(* and the name.                                                           *)
C7_UnknownFormatReported ==
    (result # Pending /\ ~NameRegistered)
    => /\ result = Returned(Undefined)
       /\ Len(reported) = 1
       /\ reported[1].name = "UnsupportedFormatterError"
       /\ reported[1].message =
             "No " \o input.type \o " format named: " \o input.name

(* C8: when an option bag is registered under the name for the kind,       *)
(* getNamedFormat returns exactly that bag and never calls onError.        *)
C8_RegisteredFormatReturned ==
    (result # Pending /\ NameRegistered /\ RegisteredFormat.t = "object")
    => /\ result = Returned(RegisteredFormat)
       /\ reported = <<>>

(* An empty option bag registered under a name that Object.prototype also  *)
(* defines, looked up and returned.                                        *)
C8_Witness ==
    /\ result # Pending
    /\ NameRegistered
    /\ input.name = "toString"
    /\ RegisteredFormat.t = "object"
    /\ result.value = RegisteredFormat

(***************************************************************************)
(* Properties of filterProps (specification SpecFilterProps).              *)
(***************************************************************************)
Allowed == {input.whitelist[i] : i \in DOMAIN input.whitelist}
GivenDefaults == IF input.defaults = Undefined THEN Obj(<<>>) ELSE input.defaults

(* C9: the result of filterProps holds, for each allowed key, the source's *)
(* value if the source has the key (whatever the value), else the          *)
(* default's value if the defaults have the key, else no such key at all;  *)
(* and it holds no key outside the allowed list.                           *)
C9_FilteredByPresence ==
    result # Pending
    => /\ OwnKeys(result.value) \subseteq Allowed
       /\ \A k \in Allowed :
             IF HasOwn(input.props, k)
             THEN /\ HasOwn(result.value, k)
                  /\ OwnValue(result.value, k) = OwnValue(input.props, k)
             ELSE IF HasOwn(GivenDefaults, k)
             THEN /\ HasOwn(result.value, k)
                  /\ OwnValue(result.value, k) = OwnValue(GivenDefaults, k)
             ELSE ~HasOwn(result.value, k)

(***************************************************************************)
(* Properties of invariantIntlContext (specification SpecIntlContext).     *)
(***************************************************************************)
FalsyValues ==
    {Undefined, Null, Bool("false"), Str(""), Num("0"), Num("-0"), Num("NaN")}

(* C10: invariantIntlContext throws an error with its descriptive message  *)
(* when intl is undefined, null, 0, the empty string or any other falsy    *)
(* value, and returns without throwing for every truthy value.             *)
C10_ThrowsOnFalsyContext ==
    result # Pending
    => IF input.intl \in FalsyValues
       THEN result = Threw("Error", IntlContextMessage)
       ELSE result.state = "returned"

(* The call made with 0, which threw. *)
C10_Witness ==
    /\ input.intl = Num("0")
    /\ result # Pending
    /\ result.state = "threw"

(***************************************************************************)
(* assignUniqueKeysToParts. A part is a text, a React element (its tag as  *)
(* content, its key; "" is the null key) or an empty node (null,           *)
(* undefined, a boolean).                                                  *)
(***************************************************************************)
Text(s) == [node |-> "text", content |-> s, key |-> ""]
Element(tag, key) == [node |-> "element", content |-> tag, key |-> key]
EmptyNode == [node |-> "empty", content |-> "", key |-> ""]

(* React.Children.toArray(children) from the child at index i on: empty    *)
(* nodes are left out, texts are passed as they are, an element is cloned  *)
(* with the key ".$" + its own key, or "." + its index when it has none.   *)
RECURSIVE toArrayFrom(_, _)
toArrayFrom(children, i) ==
    IF i > Len(children) THEN <<>>
    ELSE LET child == children[i]
             mapped ==
                 IF child.node = "empty" THEN <<>>
                 ELSE IF child.node = "element"
                 THEN << [child EXCEPT !.key =
                            IF child.key # "" THEN ".$" \o child.key
                            ELSE "." \o ToString(i - 1)] >>
                 ELSE <<child>>
         IN  mapped \o toArrayFrom(children, i + 1)

toArray(children) == toArrayFrom(children, 1)

(* The interpolation functions applied: parts => parts,                    *)
(* chunks => <b>{chunks}</b> and parts => parts.slice(0, 1).               *)
FormatXMLElementFns == {"parts", "bold", "slice"}
formatXMLElementFn(f, parts) ==
    IF f = "parts" THEN parts
    ELSE IF f = "bold"
    THEN << [node |-> "element", content |-> "b", key |-> "",
             children |-> parts] >>
    ELSE SubSeq(parts, 1, IF Len(parts) = 0 THEN 0 ELSE 1)

assignUniqueKeysToPartsUnkeyed(f, parts) ==
    \* a faulty variant: the parts are handed on as they came
    [passed |-> parts, value |-> formatXMLElementFn(f, parts)]
(* The function assignUniqueKeysToParts(f) returns, called with parts:     *)
(* what it hands to f and what it returns.                                 *)
assignUniqueKeysToParts(f, parts) ==
    LET passed == toArray(parts)
    IN  [passed |-> passed, value |-> formatXMLElementFn(f, passed)]

MaxParts == 3
MaxRenders == 2
PartNodes ==
    {Text("a"), Text("b"), EmptyNode}
        \cup {Element(tag, key) : tag \in {"b", "i"}, key \in {"", "k"}}
PartSeqs == UNION {[1..n -> PartNodes] : n \in 0..MaxParts}

InitParts ==
    /\ NoMemo
    /\ input \in [fn : {"assignUniqueKeysToParts"},
                  formatXMLElementFn : FormatXMLElementFns, parts : PartSeqs]
    /\ result = Pending
    /\ reported = <<>>

(* One call of the returned function; reported collects what each call     *)
(* handed to formatXMLElementFn.                                           *)
FormatXMLElement ==
    LET r == assignUniqueKeysToParts(input.formatXMLElementFn, input.parts)
    IN  /\ input.fn = "assignUniqueKeysToParts"
        /\ Len(reported) < MaxRenders
        /\ reported' = Append(reported, r.passed)
        /\ result' = Returned(r.value)
        /\ UNCHANGED <<memoVars, input>>

SpecParts == InitParts /\ [][FormatXMLElement]_vars

(***************************************************************************)
(* defaultErrorHandler(error): what it writes to console.error and how it  *)
(* ends, for the value env of process.env.NODE_ENV the build was made      *)
(* with.                                                                   *)
(***************************************************************************)
defaultErrorHandlerAlways(env, error) ==
    \* a faulty variant: the test of NODE_ENV is left out
    [logged |-> <<error>>, result |-> Returned(Undefined)]
defaultErrorHandler(env, error) ==
    IF env # Str("production")
    THEN [logged |-> <<error>>, result |-> Returned(Undefined)]
    ELSE [logged |-> <<>>, result |-> Returned(Undefined)]

DEFAULT_INTL_CONFIG ==
    Obj(<< <<"formats", Obj(<<>>)>>,
           <<"messages", Obj(<<>>)>>,
           <<"timeZone", Undefined>>,
           <<"textComponent", Fn("React.Fragment", 0)>>,
           <<"defaultLocale", Str("en")>>,
           <<"defaultFormats", Obj(<<>>)>>,
           <<"onError", Fn("defaultErrorHandler", 0)>> >>)

NodeEnvs ==
    {Undefined} \cup
    {Str(x) : x \in {"production", "development", "test", "", "Production"}}
ReportedErrors ==
    {UnsupportedFormatterError("No " \o type \o " format named: " \o name) :
        type \in FormatTypes, name \in FormatNames}
        \cup {[name |-> n, message |-> ""] :
                 n \in {"Error", "RangeError", "SyntaxError"}}

InitOnError ==
    /\ NoMemo
    /\ input \in [fn : {"onError"}, env : NodeEnvs, error : ReportedErrors]
    /\ result = Pending
    /\ reported = <<>>

(* DEFAULT_INTL_CONFIG.onError(error). *)
OnError ==
    LET onError == Get(DEFAULT_INTL_CONFIG, "onError")
        r == defaultErrorHandler(input.env, input.error)
    IN  /\ input.fn = "onError"
        /\ onError = Fn("defaultErrorHandler", 0)
        /\ result = Pending
        /\ reported' = reported \o r.logged
        /\ result' = r.result
        /\ UNCHANGED <<memoVars, input>>

SpecOnError == InitOnError /\ [][OnError]_vars

(***************************************************************************)
(* filterProps on object references, to tell which objects a call reads,   *)
(* makes and writes. h is the sequence of the objects allocated (records   *)
(* and arrays); props, whitelist, defaults and filtered are addresses in   *)
(* it, and defaults is 0 when the argument is left out.                    *)
(***************************************************************************)
(* whitelist.reduce(callback, filtered) from the i-th name on: the         *)
(* callback writes filtered[name] and returns filtered.                    *)
RECURSIVE reduceRef(_, _, _, _, _, _)
reduceRef(h, filtered, props, whitelist, defaults, i) ==
    IF i > Len(h[whitelist]) THEN [heap |-> h, ref |-> filtered]
    ELSE LET name == h[whitelist][i]
             next ==
                 IF HasProperty(h[props], name)
                 THEN [h EXCEPT ![filtered] = Put(@, name, Get(h[props], name))]
                 ELSE IF HasProperty(h[defaults], name)
                 THEN [h EXCEPT ![filtered] =
                                   Put(@, name, Get(h[defaults], name))]
                 ELSE h
         IN  reduceRef(next, filtered, props, whitelist, defaults, i + 1)

filterPropsRefInPlace(h, props, whitelist, defaults) ==
    \* a faulty variant: the defaults object is the accumulator
    LET h1 == IF defaults = 0 THEN Append(h, Obj(<<>>)) ELSE h
        d == IF defaults = 0 THEN Len(h1) ELSE defaults
    IN  reduceRef(h1, d, props, whitelist, d, 1)
(* The default parameter defaults = {} and the accumulator {} are objects  *)
(* made by the call.                                                       *)
filterPropsRef(h, props, whitelist, defaults) ==
    LET h1 == IF defaults = 0 THEN Append(h, Obj(<<>>)) ELSE h
        d == IF defaults = 0 THEN Len(h1) ELSE defaults
        h2 == Append(h1, Obj(<<>>))
    IN  reduceRef(h2, Len(h2), props, whitelist, d, 1)

(* The caller's objects: props at 1, a defaults record at 2, the whitelist *)
(* array at 3; the defaults argument is left out, props itself, or the     *)
(* record at 2.                                                            *)
InitFilterPropsRef ==
    /\ stores = <<>>
    /\ caches = <<>>
    /\ sets = <<>>
    /\ calls = <<>>
    /\ \E p \in PropsRecords, d \in DefaultsRecords \ {Undefined},
          w \in Whitelists : heap = <<p, d, w>>
    /\ input \in [fn : {"filterProps"}, props : {1}, whitelist : {3},
                  defaults : {0, 1, 2}]
    /\ result = Pending
    /\ reported = <<>>

(* One call filterProps(props, whitelist, defaults) with the caller's      *)
(* objects.                                                                *)
FilterPropsRef ==
    LET r == filterPropsRef(heap, input.props, input.whitelist,
                            input.defaults)
    IN  /\ input.fn = "filterProps"
        /\ Len(calls) < MaxCalls
        /\ heap' = r.heap
        /\ calls' = Append(calls, [store |-> 0, ref |-> r.ref,
                                   value |-> r.heap[r.ref]])
        /\ result' = Returned(r.heap[r.ref])
        /\ UNCHANGED <<stores, caches, sets, input, reported>>

SpecFilterPropsRef == InitFilterPropsRef /\ [][FilterPropsRef]_vars

(***************************************************************************)
(* Properties of assignUniqueKeysToParts (specification SpecParts).        *)
(***************************************************************************)
SameContent(a, b) ==
    /\ Len(a) = Len(b)
    /\ \A i \in DOMAIN a :
          a[i].node = b[i].node /\ a[i].content = b[i].content

KeysDistinct(seq) ==
    \A i, j \in DOMAIN seq : i # j => seq[i].key # seq[j].key

ElementParts(seq) == SelectSeq(seq, LAMBDA p : p.node = "element")
GivenKeys(seq) == SelectSeq(ElementParts(seq), LAMBDA p : p.key # "")

StoresOf(c) == {caches[c][k] : k \in Kinds}

(* Every container has seven store objects of its own. *)
C12_State ==
    /\ \A c \in DOMAIN caches :
          /\ DOMAIN caches[c] =
                {"dateTime", "number", "message", "relativeTime",
                 "pluralRules", "list", "displayNames"}
          /\ StoresOf(c) \subseteq DOMAIN stores
          /\ Cardinality(StoresOf(c)) = 7
    /\ \A c, d \in DOMAIN caches : c # d => StoresOf(c) \cap StoresOf(d) = {}
(* A new container's stores are new objects and empty, and a step writes   *)
(* to at most one store.                                                   *)
C12_Frame ==
    /\ Len(caches') > Len(caches)
       => LET made == {caches'[Len(caches')][k] : k \in Kinds}
          IN  /\ made \cap DOMAIN stores = {}
              /\ \A a \in made : stores'[a] = EmptyStore
              /\ \A a \in DOMAIN stores : stores'[a] = stores[a]
    /\ \A a, b \in DOMAIN stores :
          (stores'[a] # stores[a] /\ stores'[b] # stores[b]) => a = b
(* C12: every createIntlCache() call returns a container with seven empty  *)
(* stores, one per kind, that are pairwise distinct objects and distinct   *)
(* from the stores of every other container; a write to one store shows in *)
(* no other store.                                                         *)
C12_FreshIndependentStores == []C12_State /\ [][C12_Frame]_vars

(* Two containers, one entry written: thirteen stores are still empty. *)
C12_Witness ==
    /\ Len(caches) = 2
    /\ \E a \in DOMAIN stores :
          /\ stores[a] # EmptyStore
          /\ \A b \in DOMAIN stores \ {a} : stores[b] = EmptyStore
    /\ Cardinality(StoresOf(1) \cup StoresOf(2)) = 14

OwnSets == {s \in DOMAIN sets : sets[s].own}

(* A set made without a container shares its container with no other set,  *)
(* returns no instance another such set returns, and has a hit only after  *)
(* a successful call of the same kind and key made through itself.         *)
C13_State ==
    /\ \A s \in OwnSets : \A t \in DOMAIN sets :
          s # t => /\ sets[s].cache # sets[t].cache
                   /\ \A k, l \in Kinds : sets[s].stores[k] # sets[t].stores[l]
    /\ \A i, j \in MemoCalls :
          (calls[i].set \in OwnSets /\ calls[j].set \in OwnSets
              /\ calls[i].set # calls[j].set /\ calls[i].ok /\ calls[j].ok)
          => calls[i].inst # calls[j].inst
    /\ \A j \in MemoCalls :
          (calls[j].set \in OwnSets /\ ~calls[j].built)
          => \E i \in MemoCalls :
                /\ i < j
                /\ calls[i].set = calls[j].set
                /\ calls[i].kind = calls[j].kind
                /\ calls[i].key = calls[j].key
                /\ calls[i].ok
(* The container of a set made without one is made in the same step, of    *)
(* new empty stores.                                                       *)
C13_Frame ==
    (Len(sets') > Len(sets) /\ sets'[Len(sets')].own)
    => /\ Len(caches') = Len(caches) + 1
       /\ sets'[Len(sets')].cache = Len(caches')
       /\ \A k \in Kinds :
             /\ caches'[Len(caches')][k] \notin DOMAIN stores
             /\ stores'[caches'[Len(caches')][k]] = EmptyStore
(* C13: createFormatters() without a container makes a container of its    *)
(* own: two sets made that way share no store and no entry, so the same    *)
(* arguments passed to their constructors are constructed through each     *)
(* and give two different instances.                                       *)
C13_DefaultContainerIsOwn == []C13_State /\ [][C13_Frame]_vars

(* The same constructor called with the same arguments through two sets    *)
(* made without a container: two constructions, two instances.             *)
C13_Witness ==
    \E i, j \in MemoCalls :
        /\ i < j
        /\ calls[i].set \in OwnSets /\ calls[j].set \in OwnSets
        /\ calls[i].set # calls[j].set
        /\ calls[i].kind = calls[j].kind
        /\ calls[i].args = calls[j].args
        /\ calls[i].built /\ calls[j].built
        /\ calls[i].ok /\ calls[j].ok
        /\ calls[i].inst # calls[j].inst

(* C15: the stores only grow. In every step every key present in a store   *)
(* stays present and mapped to the same instance, and every store object   *)
(* stays in place: no call removes or overwrites an entry.                 *)
C15_StoresOnlyGrow ==
    [][\A a \in DOMAIN stores :
          /\ a \in DOMAIN stores'
          /\ \A key \in DOMAIN stores[a] :
                /\ key \in DOMAIN stores'[a]
                /\ stores'[a][key] = stores[a][key]]_vars

(* A store that got a second entry beside its first. *)
C15_Witness ==
    \E a \in DOMAIN stores :
        /\ Cardinality(DOMAIN stores[a]) = 2
        /\ \A key \in DOMAIN stores[a] : stores[a][key] \in DOMAIN heap
        /\ \E i, j \in MemoCalls :
              /\ i < j
              /\ calls[i].store = a /\ calls[j].store = a
              /\ stores[a][calls[i].key] = calls[i].inst
              /\ stores[a][calls[j].key] = calls[j].inst
              /\ calls[i].inst # calls[j].inst

(* The successful constructions of a kind under a key over a container. *)
ConstructionsOver(c, kind, key) ==
    {n \in MemoCalls : /\ calls[n].cache = c
                       /\ calls[n].kind = kind
                       /\ calls[n].key = key
                       /\ calls[n].built
                       /\ calls[n].ok}

(* C16, as stated: an instance constructed through one formatter set is    *)
(* returned, without a new construction, by the same-kind constructor of   *)
(* every other set over the same container for value-equal arguments.      *)
C16_OtherSetHitsValueEqualArguments ==
    \A i, j \in MemoCalls :
        ( /\ i < j
          /\ calls[i].set # calls[j].set
          /\ calls[i].cache = calls[j].cache
          /\ calls[i].kind = calls[j].kind
          /\ ArgsEqual(calls[i].args, calls[j].args)
          /\ calls[i].ok )
        => /\ calls[j].ok
           /\ calls[j].inst = calls[i].inst
           /\ ~calls[j].built

(* C16, amended: a hit depends on the container's store only. The sets     *)
(* made over one container close over the same stores; an instance         *)
(* constructed through one set is returned, without a new construction, by *)
(* the same-kind constructor of every set over that container for          *)
(* arguments that serialize to the same key, so at most one instance per   *)
(* kind and key is constructed for a container.                            *)
C16_OtherSetHitsSameKey ==
    /\ \A s, t \in DOMAIN sets :
          sets[s].cache = sets[t].cache => sets[s].stores = sets[t].stores
    /\ \A i, j \in MemoCalls :
          ( /\ i < j
            /\ calls[i].cache = calls[j].cache
            /\ calls[i].kind = calls[j].kind
            /\ calls[i].key = calls[j].key
            /\ calls[i].ok )
          => /\ calls[j].ok
             /\ calls[j].inst = calls[i].inst
             /\ ~calls[j].built
    /\ \A i \in MemoCalls :
          Cardinality(ConstructionsOver(calls[i].cache, calls[i].kind,
                                        calls[i].key)) <= 1

(* An instance constructed through one set, returned by another set over   *)
(* the same container.                                                     *)
C16_Witness ==
    \E i, j \in MemoCalls :
        /\ i < j
        /\ calls[i].set # calls[j].set
        /\ calls[i].cache = calls[j].cache
        /\ calls[i].kind = calls[j].kind
        /\ calls[i].args = calls[j].args
        /\ calls[i].built /\ calls[i].ok
        /\ calls[j].ok /\ ~calls[j].built
        /\ calls[j].inst = calls[i].inst

(* A failed call is a construction that threw; unless a later call in the  *)
(* same store succeeded under its key, the key is not in the store, and    *)
(* the next call there with the same arguments constructs again.           *)
C17_State ==
    \A i \in MemoCalls :
        ~calls[i].ok
        => /\ calls[i].built
           /\ calls[i].inst = 0
           /\ (\A k \in MemoCalls :
                  (k > i /\ calls[k].store = calls[i].store
                         /\ calls[k].key = calls[i].key) => ~calls[k].ok)
              => calls[i].key \notin DOMAIN stores[calls[i].store]
           /\ \A j \in MemoCalls :
                 ( /\ i < j
                   /\ calls[j].store = calls[i].store
                   /\ calls[j].args = calls[i].args
                   /\ \A k \in MemoCalls :
                         (i < k /\ k < j /\ calls[k].store = calls[i].store
                                /\ calls[k].key = calls[i].key)
                         => ~calls[k].ok )
                 => calls[j].built
(* A failed call changes no store, no container and no instance. *)
C17_Frame ==
    (calls' # calls /\ calls'[Len(calls')].store # 0
                    /\ ~calls'[Len(calls')].ok)
    => /\ stores' = stores
       /\ caches' = caches
       /\ heap' = heap
(* C17: a failed construction leaves the cache container unchanged. When   *)
(* the underlying constructor fails on a miss no entry is stored under the *)
(* key in any store, and a later call with the same arguments invokes the  *)
(* underlying constructor again.                                           *)
C17_FailureStoresNothing == []C17_State /\ [][C17_Frame]_vars

(* A constructor that failed twice with the same arguments: invoked twice, *)
(* nothing stored.                                                         *)
C17_Witness ==
    \E i, j \in MemoCalls :
        /\ i < j
        /\ calls[i].store = calls[j].store
        /\ calls[i].args = calls[j].args
        /\ ~calls[i].ok /\ ~calls[j].ok
        /\ calls[i].built /\ calls[j].built
        /\ stores[calls[i].store] = EmptyStore

(***************************************************************************)
(* Properties of defaultErrorHandler (specification SpecOnError).          *)
(***************************************************************************)
(* C14: DEFAULT_INTL_CONFIG.onError is defaultErrorHandler; called with an *)
(* error it writes that error, once, to console.error exactly when         *)
(* NODE_ENV is not 'production', writes nothing in a production build, and *)
(* in both cases returns without throwing.                                 *)
C14_LogsOutsideProduction ==
    /\ Get(DEFAULT_INTL_CONFIG, "onError") = Fn("defaultErrorHandler", 0)
    /\ result = Pending => reported = <<>>
    /\ result # Pending
       => /\ result = Returned(Undefined)
          /\ reported = IF input.env = Str("production") THEN <<>>
                        ELSE <<input.error>>

(* The call made in a production build: returned, nothing written. *)
C14_Witness ==
    /\ input.fn = "onError"
    /\ input.env = Str("production")
    /\ result = Returned(Undefined)
    /\ reported = <<>>

(***************************************************************************)
(* Properties of filterProps on references (specification                  *)
(* SpecFilterPropsRef).                                                    *)
(***************************************************************************)
CallerObjects == {input.props, input.whitelist} \cup ({input.defaults} \ {0})

(* Every returned record is an object of its own, still as it was          *)
(* returned, and equal to the record of every other call.                  *)
C18_State ==
    \A i \in DOMAIN calls :
        /\ calls[i].ref \notin CallerObjects
        /\ heap[calls[i].ref] = calls[i].value
        /\ calls[i].value =
              filterProps(heap[input.props], heap[input.whitelist],
                          IF input.defaults = 0 THEN Undefined
                          ELSE heap[input.defaults])
        /\ \A j \in DOMAIN calls :
              i # j => /\ calls[i].ref # calls[j].ref
                       /\ calls[i].value = calls[j].value
(* A call changes no object that existed before it. *)
C18_Frame ==
    /\ \A a \in CallerObjects : heap'[a] = heap[a]
    /\ \A a \in DOMAIN heap : a \in DOMAIN heap' /\ heap'[a] = heap[a]
(* C18: filterProps is pure. Every call returns a new record that is       *)
(* neither the source record nor the defaults record and leaves the source *)
(* record, the allowed-key list and the defaults record unchanged, so two  *)
(* calls with the same inputs return equal records.                        *)
C18_FilterPropsIsPure == []C18_State /\ [][C18_Frame]_vars

(* Two calls with a defaults record, each returning a record with a value  *)
(* of the source and a value of the defaults.                              *)
C18_Witness ==
    /\ Len(calls) = 2
    /\ input.defaults = 2
    /\ calls[1].ref # calls[2].ref
    /\ calls[1].value = Obj(<< <<"a", Num("1")>>, <<"c", Num("3")>> >>)
    /\ calls[2].value = calls[1].value

====
